---- MODULE Spec2Model ----
(***************************************************************************)
(* Native frames instrumentation of sentry-react-native                    *)
(* (src/js/tracing/nativeframes.ts, class NativeFramesInstrumentation).    *)
(*                                                                         *)
(* Time is counted in integer milliseconds.  timestampInSeconds() values   *)
(* are kept in milliseconds too, so MARGIN_OF_ERROR_SECONDS = 0.05 s is 50 *)
(* and the comparison Math.abs(a - b) < 0.05 is exact integer arithmetic.  *)
(* The JavaScript event loop is single threaded: every action below is one *)
(* run-to-completion piece of a handler, cut at its await points.          *)
(***************************************************************************)
EXTENDS Integers, Sequences, FiniteSets, TLC

(* ------------------------------------------------------------------ *)
(* Program constants                                                  *)
(* ------------------------------------------------------------------ *)

\* const MARGIN_OF_ERROR_SECONDS = 0.05, in milliseconds
MARGIN_OF_ERROR_MS == 50

\* the delay of both setTimeout calls (request timeout and cleanup sweep)
TIMEOUT_MS == 2000

(* ------------------------------------------------------------------ *)
(* Bounds of the model                                                *)
(* ------------------------------------------------------------------ *)

\* number of transaction objects the tracing integration hands in
NumTxns == 2

\* number of events that can be inside the event processor at once
MaxInFlight == 2

\* number of calls of onTransactionStart, _onSpanFinish and the event
\* processor together
MaxCalls == 3

\* number of clock steps of one margin (the other clock steps jump to the
\* next timer deadline)
MaxSmallTicks == 1

\* clock value at construction (milliseconds; any positive value)
StartTime == 1000

\* last admissible clock value; a timer is only started when it can fire
MaxTime == 5100

\* frame counters range over 0..MaxFrames in the specification of the pure
\* measurement computation
MaxFrames == 1

(* ------------------------------------------------------------------ *)
(* Values                                                             *)
(* ------------------------------------------------------------------ *)

\* null / undefined
Null == [null |-> TRUE]

Traces == {"A", "B"}

\* a falsy trace_id
NoTraceId == ""

Txns == 1..NumTxns

Slots == 1..MaxInFlight

\* NativeFramesResponse
Frames(t, s, f) == [totalFrames |-> t, slowFrames |-> s, frozenFrames |-> f]

\* the start frames an event carries in its trace context
StartReading == Frames(5, 2, 1)

\* what NATIVE.fetchNativeFrames() resolves to: null, or a reading.  The
\* span fetches read below StartReading in every counter and the finish
\* fetches above it, so a result tells which record it was computed from
StartResults == {Null, StartReading}

SpanResults == {Null, Frames(2, 1, 0)}

FinishResults == {Null, Frames(9, 4, 3)}

\* keys of Measurements: the three this instrumentation writes and one of
\* another integration
FrameKeys == {"frames_total", "frames_slow", "frames_frozen"}

OtherKey == "app_start_cold"

\* event.measurements; undefined and {} are both the empty function
NoMeasurements == [k \in {} |-> 0]

\* an absent (undefined) number; like 0 it is falsy
NoNumber == 0

\* no listener stored under a key of _framesListeners
NoListener == 0

\* JavaScript truthiness of a number | undefined
TruthyNumber(x) == x # NoNumber

\* JavaScript truthiness of an object | null | undefined
TruthyObject(x) == x # Null

\* JavaScript truthiness of a string
TruthyString(s) == s # ""

Abs(x) == IF x < 0 THEN -x ELSE x

(* ------------------------------------------------------------------ *)
(* _prepareMeasurements                                               *)
(* ------------------------------------------------------------------ *)

\* WithinMargin with the margin itself included (<= for <)
WithinMarginInclusive(ts, finalEndTimestamp) ==
    Abs(ts - finalEndTimestamp) <= MARGIN_OF_ERROR_MS

\* Math.abs(ts - finalEndTimestamp) < MARGIN_OF_ERROR_SECONDS
WithinMargin(ts, finalEndTimestamp) ==
    Abs(ts - finalEndTimestamp) < MARGIN_OF_ERROR_MS

\* FramesDelta with every value clamped at zero
FramesDeltaClamped(finalFinishFrames, startFrames) ==
    LET Clamp(x) == IF x < 0 THEN 0 ELSE x IN
    [k \in FrameKeys |->
        CASE k = "frames_total" ->
                Clamp(finalFinishFrames.totalFrames - startFrames.totalFrames)
          [] k = "frames_frozen" ->
                Clamp(finalFinishFrames.frozenFrames - startFrames.frozenFrames)
          [] k = "frames_slow" ->
                Clamp(finalFinishFrames.slowFrames - startFrames.slowFrames)]

\* the measurements record built from the selected finish frames
FramesDelta(finalFinishFrames, startFrames) ==
    [k \in FrameKeys |->
        CASE k = "frames_total" ->
                finalFinishFrames.totalFrames - startFrames.totalFrames
          [] k = "frames_frozen" ->
                finalFinishFrames.frozenFrames - startFrames.frozenFrames
          [] k = "frames_slow" ->
                finalFinishFrames.slowFrames - startFrames.slowFrames]

\* the per-trace finish record is usable: present, non-null frames, in margin
FinishUsable(finish, finalEndTimestamp) ==
    /\ finish # Null
    /\ TruthyObject(finish.nativeFrames)
    /\ WithinMargin(finish.timestamp, finalEndTimestamp)

\* the last span finish record is usable: present and in margin
LastSpanUsable(lastSpan, finalEndTimestamp) ==
    /\ lastSpan # Null
    /\ WithinMargin(lastSpan.timestamp, finalEndTimestamp)

\* _prepareMeasurements trying the last span finish before the finish record
PrepareOrphanFirst(finishMap, lastSpan, traceId, finalEndTimestamp, startFrames) ==
    LET finish == finishMap[traceId] IN
    IF LastSpanUsable(lastSpan, finalEndTimestamp)
    THEN FramesDelta(lastSpan.nativeFrames, startFrames)
    ELSE IF FinishUsable(finish, finalEndTimestamp)
         THEN FramesDelta(finish.nativeFrames, startFrames)
         ELSE Null

\* _prepareMeasurements without the fallback to the last span finish
PrepareWithoutFallback(finishMap, lastSpan, traceId, finalEndTimestamp, startFrames) ==
    LET finish == finishMap[traceId] IN
    IF FinishUsable(finish, finalEndTimestamp)
    THEN FramesDelta(finish.nativeFrames, startFrames)
    ELSE Null

\* _prepareMeasurements(traceId, finalEndTimestamp, startFrames) on the maps
\* given; Null when no finish frames are eligible
_prepareMeasurements(finishMap, lastSpan, traceId, finalEndTimestamp, startFrames) ==
    LET finish == finishMap[traceId] IN
    IF FinishUsable(finish, finalEndTimestamp)
    THEN FramesDelta(finish.nativeFrames, startFrames)
    ELSE IF LastSpanUsable(lastSpan, finalEndTimestamp)
         THEN FramesDelta(lastSpan.nativeFrames, startFrames)
         ELSE Null

(* ------------------------------------------------------------------ *)
(* State                                                              *)
(* ------------------------------------------------------------------ *)

VARIABLES
    now,                    \* the clock (timestampInSeconds, setTimeout), ms
    smallTicks,             \* clock steps of one margin taken so far
    txn,                    \* the Transaction objects
    calls,                  \* hook and event processor calls so far
    spanFetches,            \* fetches of _onSpanFinish in flight
    _finishFrames,          \* Map traceId -> {timestamp, nativeFrames}
    _framesListeners,       \* Map traceId -> listener (the request's slot)
    _lastSpanFinishFrames,  \* {timestamp, nativeFrames} | undefined
    timers,                 \* pending setTimeout callbacks, in firing order
    slot,                   \* the _processEvent calls in progress
    sent                    \* the event the processor returned last

vars == <<now, smallTicks, txn, calls, spanFetches, _finishFrames,
          _framesListeners, _lastSpanFinishFrames, timers, slot, sent>>

\* no finish fetch of the transaction has resolved
NotFetched == [fetched |-> FALSE]

\* a Transaction before onTransactionStart: its phase, its traceId, its
\* data.__startFrames, whether its start fetch is in flight, the timestamp
\* _fetchFramesForTransaction took, and what its finish fetch resolved to
NewTxn ==
    [phase |-> "new", traceId |-> NoTraceId, startFrames |-> Null,
     startFetch |-> FALSE, finishTs |-> NoNumber, fetched |-> NotFetched]

\* an Event with nothing in it
NoEvent ==
    [type |-> "", transaction |-> "", trace_id |-> NoTraceId,
     startFrames |-> Null, timestamp |-> NoNumber,
     measurements |-> NoMeasurements]

\* the finish record of the trace and the last span finish record at the
\* moment a request was resolved
NotSeen == [finish |-> Null, lastSpan |-> Null]

FreeSlot ==
    [pc |-> "free", event |-> NoEvent, result |-> Null, via |-> "",
     seen |-> NotSeen]

NothingSent ==
    [path |-> "none", in |-> NoEvent, out |-> NoEvent, result |-> Null,
     seen |-> NotSeen]

\* measurements another integration put on the event before this processor
Preexisting == (OtherKey :> 9) @@ ("frames_slow" :> 9)

\* events that pass both conditions of _processEvent, stamped around time t
ValidEvents(t) ==
    [type : {"transaction"},
     transaction : {"Home"},
     trace_id : Traces,
     startFrames : {StartReading},
     timestamp : {t - MARGIN_OF_ERROR_MS, t, t + 1},
     measurements : {Preexisting}]

\* a valid event of trace "A" stamped t
PlainEvent(t) ==
    [type |-> "transaction", transaction |-> "Home", trace_id |-> "A",
     startFrames |-> StartReading, timestamp |-> t,
     measurements |-> Preexisting]

\* a valid event without measurements, and events that fail one condition
\* of _processEvent each
OtherEvents(t) ==
    {[PlainEvent(t) EXCEPT !.measurements = NoMeasurements],
     [PlainEvent(t) EXCEPT !.type = "error"],
     [PlainEvent(t) EXCEPT !.transaction = ""],
     [PlainEvent(t) EXCEPT !.trace_id = NoTraceId],
     [PlainEvent(t) EXCEPT !.startFrames = Null],
     [PlainEvent(t) EXCEPT !.timestamp = NoNumber]}

\* the events the SDK can hand to the event processor at time t
EventInputs(t) == ValidEvents(t) \cup OtherEvents(t)

Init ==
    /\ now = StartTime
    /\ smallTicks = 0
    /\ txn = [t \in Txns |-> NewTxn]
    /\ calls = 0
    /\ spanFetches = {}
    /\ _finishFrames = [tr \in Traces |-> Null]
    /\ _framesListeners = [tr \in Traces |-> NoListener]
    /\ _lastSpanFinishFrames = Null
    /\ timers = <<>>
    /\ slot = [s \in Slots |-> FreeSlot]
    /\ sent = NothingSent

(* ------------------------------------------------------------------ *)
(* Timers                                                             *)
(* ------------------------------------------------------------------ *)

\* a timer started now can still fire within the model's horizon
CanStartTimer == now + TIMEOUT_MS <= MaxTime

\* setTimeout(callback, 2000): all delays are equal, so registration order
\* is firing order
SetTimeout(q, kind, who) ==
    Append(q, [kind |-> kind, who |-> who, deadline |-> now + TIMEOUT_MS])

\* a clearTimeout that clears nothing
ClearTimeoutNothing(q, s) == q

\* clearTimeout(timeout) of the request in slot s
ClearTimeout(q, s) ==
    SelectSeq(q, LAMBDA tm : ~(tm.kind = "request" /\ tm.who = s))

\* the callback of the given kind is the next one due
TimerDue(kind) ==
    /\ timers # <<>>
    /\ Head(timers).kind = kind
    /\ Head(timers).deadline <= now

(* ------------------------------------------------------------------ *)
(* Lifecycle hooks                                                    *)
(* ------------------------------------------------------------------ *)

\* the event returned last has been taken over by the SDK: a call of the
\* processor and the use of what it returned are not interleaved with others
Taken == sent = NothingSent

\* a new task of the event loop (a timer callback, the callback of a native
\* fetch) starts only when the event returned last is taken and no promise
\* continuation is pending: a resolved request resumes first
TaskCanStart ==
    /\ Taken
    /\ \A s \in Slots : slot[s].pc # "resolved"

\* onTransactionStart(transaction): issue the start fetch and instrument the
\* child spans; tr is the transaction's traceId
onTransactionStart(t, tr) ==
    /\ Taken
    /\ calls < MaxCalls
    /\ txn[t].phase = "new"
    /\ \A t2 \in Txns : t2 < t => txn[t2].phase # "new"
    /\ t = 1 => tr = "A"
    /\ calls' = calls + 1
    /\ txn' = [txn EXCEPT ![t] = [@ EXCEPT !.phase = "started",
                                           !.traceId = tr,
                                           !.startFetch = TRUE]]
    /\ UNCHANGED <<now, smallTicks, spanFetches, _finishFrames,
                   _framesListeners, _lastSpanFinishFrames, timers, slot, sent>>

\* the then-callback of the start fetch: transaction.setData("__startFrames")
\* when the reading is not null
StartFramesFetched(t, framesMetrics) ==
    /\ TaskCanStart
    /\ txn[t].startFetch
    /\ txn' = [txn EXCEPT ![t] =
                 [@ EXCEPT !.startFetch = FALSE,
                           !.startFrames = IF TruthyObject(framesMetrics)
                                           THEN framesMetrics ELSE @]]
    /\ UNCHANGED <<now, smallTicks, calls, spanFetches, _finishFrames,
                   _framesListeners, _lastSpanFinishFrames, timers, slot, sent>>

\* _onSpanFinish(span, endTimestamp): a child span of an instrumented
\* transaction finished; without an end timestamp a fetch is issued
_onSpanFinish(endTimestamp) ==
    /\ Taken
    /\ calls < MaxCalls
    /\ \E t \in Txns : txn[t].phase # "new"
    /\ calls' = calls + 1
    /\ spanFetches' = IF ~TruthyNumber(endTimestamp)
                      THEN spanFetches \cup {[n |-> calls, timestamp |-> now]}
                      ELSE spanFetches
    /\ UNCHANGED <<now, smallTicks, txn, _finishFrames, _framesListeners,
                   _lastSpanFinishFrames, timers, slot, sent>>

\* the then-callback of a span fetch: store the reading when it is not null
SpanFramesFetched(f, nativeFrames) ==
    /\ TaskCanStart
    /\ f \in spanFetches
    /\ spanFetches' = spanFetches \ {f}
    /\ _lastSpanFinishFrames' =
          IF TruthyObject(nativeFrames)
          THEN [timestamp |-> f.timestamp, nativeFrames |-> nativeFrames]
          ELSE _lastSpanFinishFrames
    /\ UNCHANGED <<now, smallTicks, txn, calls, _finishFrames,
                   _framesListeners, timers, slot, sent>>

(* ------------------------------------------------------------------ *)
(* Finish frames of a transaction                                     *)
(* ------------------------------------------------------------------ *)

\* the listener a waiting request stored: resolve the request in slot s with
\* _prepareMeasurements on the maps as they are at the call
ResolvedByListener(sl, s, finishMap) ==
    LET event == sl[s].event IN
    [sl EXCEPT ![s] =
        [pc |-> "resolved", event |-> event, via |-> "listener",
         seen |-> [finish |-> finishMap[event.trace_id],
                   lastSpan |-> _lastSpanFinishFrames],
         result |-> _prepareMeasurements(finishMap, _lastSpanFinishFrames,
                       event.trace_id, event.timestamp, event.startFrames)]]

\* a store that stamps the finish record with the time of the store
StoreFinishFramesStampedNow(t, finishFrames, timestamp) ==
    LET tr == txn[t].traceId
        finishMap == [_finishFrames EXCEPT ![tr] =
                         [nativeFrames |-> finishFrames, timestamp |-> now]]
        s == _framesListeners[tr]
    IN  /\ CanStartTimer
        /\ _finishFrames' = finishMap
        /\ IF s # NoListener
           THEN /\ slot' = ResolvedByListener(slot, s, finishMap)
                /\ _framesListeners' = [_framesListeners EXCEPT ![tr] = NoListener]
                /\ timers' = SetTimeout(ClearTimeout(timers, s), "sweep", t)
           ELSE /\ timers' = SetTimeout(timers, "sweep", t)
                /\ UNCHANGED <<slot, _framesListeners>>

\* the rest of _fetchFramesForTransaction after the fetch: store the finish
\* record, call the listener of the trace if there is one (it clears its
\* timeout and deletes itself), schedule _cancelFinishFrames
StoreFinishFrames(t, finishFrames, timestamp) ==
    LET tr == txn[t].traceId
        finishMap == [_finishFrames EXCEPT ![tr] =
                         [nativeFrames |-> finishFrames, timestamp |-> timestamp]]
        s == _framesListeners[tr]
    IN  /\ CanStartTimer
        /\ _finishFrames' = finishMap
        /\ IF s # NoListener
           THEN /\ slot' = ResolvedByListener(slot, s, finishMap)
                /\ _framesListeners' = [_framesListeners EXCEPT ![tr] = NoListener]
                /\ timers' = SetTimeout(ClearTimeout(timers, s), "sweep", t)
           ELSE /\ timers' = SetTimeout(timers, "sweep", t)
                /\ UNCHANGED <<slot, _framesListeners>>

\* onTransactionFinish(transaction) -> _fetchFramesForTransaction up to its
\* await: with start frames the finish fetch is issued, without them the
\* record is stored at once with null frames
onTransactionFinish(t) ==
    /\ Taken
    /\ txn[t].phase = "started"
    /\ IF TruthyObject(txn[t].startFrames)
       THEN /\ txn' = [txn EXCEPT ![t] = [@ EXCEPT !.phase = "fetching",
                                                   !.finishTs = now]]
            /\ UNCHANGED <<_finishFrames, _framesListeners, timers, slot>>
       ELSE /\ txn' = [txn EXCEPT ![t] = [@ EXCEPT !.phase = "finished"]]
            /\ StoreFinishFrames(t, Null, now)
    /\ UNCHANGED <<now, smallTicks, calls, spanFetches,
                   _lastSpanFinishFrames, sent>>

\* _fetchFramesForTransaction resumed with the result of the finish fetch
FinishFramesFetched(t, finishFrames) ==
    /\ TaskCanStart
    /\ txn[t].phase = "fetching"
    /\ txn' = [txn EXCEPT ![t] = [@ EXCEPT !.phase = "finished",
                                           !.finishTs = NoNumber,
                                           !.fetched = finishFrames]]
    /\ StoreFinishFrames(t, finishFrames, txn[t].finishTs)
    /\ UNCHANGED <<now, smallTicks, calls, spanFetches,
                   _lastSpanFinishFrames, sent>>

\* a cleanup callback that empties the finish-record map
CancelClearsAll ==
    /\ TaskCanStart
    /\ TimerDue("sweep")
    /\ _finishFrames' = [tr \in Traces |-> Null]
    /\ timers' = Tail(timers)
    /\ UNCHANGED <<now, smallTicks, txn, calls, spanFetches,
                   _framesListeners, _lastSpanFinishFrames, slot, sent>>

\* a cleanup callback that leaves the finish record where it is
CancelKeepsRecord ==
    /\ TaskCanStart
    /\ TimerDue("sweep")
    /\ timers' = Tail(timers)
    /\ UNCHANGED <<now, smallTicks, txn, calls, spanFetches, _finishFrames,
                   _framesListeners, _lastSpanFinishFrames, slot, sent>>

\* the cleanup callback: _cancelFinishFrames(transaction)
_cancelFinishFrames ==
    /\ TaskCanStart
    /\ TimerDue("sweep")
    /\ LET tr == txn[Head(timers).who].traceId IN
         _finishFrames' = IF _finishFrames[tr] # Null
                          THEN [_finishFrames EXCEPT ![tr] = Null]
                          ELSE _finishFrames
    /\ timers' = Tail(timers)
    /\ UNCHANGED <<now, smallTicks, txn, calls, spanFetches,
                   _framesListeners, _lastSpanFinishFrames, slot, sent>>

(* ------------------------------------------------------------------ *)
(* Event processor                                                    *)
(* ------------------------------------------------------------------ *)

\* the outer condition of _processEvent
IsTransactionEvent(event) ==
    event.type = "transaction" /\ TruthyString(event.transaction)

\* an inner condition that does not look at the start frames
HasFramesContextWithoutStart(event) ==
    /\ TruthyString(event.trace_id)
    /\ TruthyNumber(event.timestamp)

\* the inner condition of _processEvent
HasFramesContext(event) ==
    /\ TruthyString(event.trace_id)
    /\ TruthyObject(event.startFrames)
    /\ TruthyNumber(event.timestamp)

\* the event is returned as it came
PassThrough(path, event) ==
    /\ sent' = [path |-> path, in |-> event, out |-> event, result |-> Null,
                seen |-> NotSeen]
    /\ UNCHANGED <<_finishFrames, _framesListeners, timers, slot>>

\* _getFramesMeasurements when the finish record is there: computed at once
ResolveAtOnce(s, event) ==
    /\ slot' = [slot EXCEPT ![s] =
         [pc |-> "resolved", event |-> event, via |-> "has",
          seen |-> [finish |-> _finishFrames[event.trace_id],
                    lastSpan |-> _lastSpanFinishFrames],
          result |-> _prepareMeasurements(_finishFrames, _lastSpanFinishFrames,
                        event.trace_id, event.timestamp, event.startFrames)]]
    /\ UNCHANGED <<_finishFrames, _framesListeners, timers, sent>>

\* _getFramesMeasurements when it is not: start the timeout, store the listener
AwaitFinishFrames(s, event) ==
    /\ CanStartTimer
    /\ slot' = [slot EXCEPT ![s] =
         [pc |-> "waiting", event |-> event, via |-> "", seen |-> NotSeen,
          result |-> Null]]
    /\ timers' = SetTimeout(timers, "request", s)
    /\ _framesListeners' = [_framesListeners EXCEPT ![event.trace_id] = s]
    /\ UNCHANGED <<_finishFrames, sent>>

\* _getFramesMeasurements(traceId, finalEndTimestamp, startFrames) up to the
\* point where its promise is resolved or left pending
_getFramesMeasurements(s, event) ==
    IF _finishFrames[event.trace_id] # Null
    THEN ResolveAtOnce(s, event)
    ELSE AwaitFinishFrames(s, event)

\* _processEvent(event) up to its await
_processEvent(s, event) ==
    IF IsTransactionEvent(event) /\ HasFramesContext(event)
    THEN _getFramesMeasurements(s, event)
    ELSE PassThrough("skip", event)

\* an event processor that strips the start frames of the event it passes
\* through when doesExist() answers false
EventProcessorStripping(s, event, doesExist) ==
    /\ Taken
    /\ calls < MaxCalls
    /\ slot[s].pc = "free"
    /\ \A s2 \in Slots : s2 < s => slot[s2].pc # "free"
    /\ calls' = calls + 1
    /\ IF doesExist
       THEN _processEvent(s, event)
       ELSE /\ sent' = [path |-> "noexist", in |-> event,
                        out |-> [event EXCEPT !.startFrames = Null],
                        result |-> Null, seen |-> NotSeen]
            /\ UNCHANGED <<_finishFrames, _framesListeners, timers, slot>>
    /\ UNCHANGED <<now, smallTicks, txn, spanFetches, _lastSpanFinishFrames>>

\* the registered event processor called with an event; doesExist is what
\* doesExist() answers; the call takes the first free slot
EventProcessor(s, event, doesExist) ==
    /\ Taken
    /\ calls < MaxCalls
    /\ slot[s].pc = "free"
    /\ \A s2 \in Slots : s2 < s => slot[s2].pc # "free"
    /\ calls' = calls + 1
    /\ IF doesExist
       THEN _processEvent(s, event)
       ELSE PassThrough("noexist", event)
    /\ UNCHANGED <<now, smallTicks, txn, spanFetches, _lastSpanFinishFrames>>

\* a timeout callback that resolves its request with null and leaves the
\* listener of the trace where it is
RequestTimeoutKeepsListener ==
    /\ TaskCanStart
    /\ TimerDue("request")
    /\ slot' = [slot EXCEPT ![Head(timers).who] =
                   [@ EXCEPT !.pc = "resolved", !.via = "timeout"]]
    /\ timers' = Tail(timers)
    /\ UNCHANGED <<now, smallTicks, txn, calls, spanFetches, _finishFrames,
                   _framesListeners, _lastSpanFinishFrames, sent>>

\* the timeout callback of a waiting request
RequestTimeout ==
    /\ TaskCanStart
    /\ TimerDue("request")
    /\ LET s == Head(timers).who IN
         /\ _framesListeners' =
               [_framesListeners EXCEPT ![slot[s].event.trace_id] = NoListener]
         /\ slot' = IF slot[s].pc = "waiting"
                    THEN [slot EXCEPT ![s] =
                            [@ EXCEPT !.pc = "resolved",
                                      !.via = "timeout",
                                      !.seen = [finish |-> _finishFrames[slot[s].event.trace_id],
                                                lastSpan |-> _lastSpanFinishFrames],
                                      !.result = Null]]
                    ELSE slot
    /\ timers' = Tail(timers)
    /\ UNCHANGED <<now, smallTicks, txn, calls, spanFetches, _finishFrames,
                   _lastSpanFinishFrames, sent>>

\* a merge that keeps only the new measurements
MergeReplacing(old, measurements) == measurements

\* event.measurements = {...(event.measurements ?? {}), ...measurements}
MergeMeasurements(old, measurements) ==
    [k \in DOMAIN old \cup DOMAIN measurements |->
        IF k \in DOMAIN measurements THEN measurements[k] ELSE old[k]]

\* a returned event whose measurements are cleared when there are none to add
ProcessedEventClearing(event, measurements) ==
    IF measurements = Null
    THEN [event EXCEPT !.startFrames = Null, !.measurements = NoMeasurements]
    ELSE [event EXCEPT !.startFrames = Null,
                       !.measurements = MergeMeasurements(@, measurements)]

\* a returned event that loses its start frames only when measurements are
\* added
ProcessedEventKeepingStart(event, measurements) ==
    IF measurements = Null
    THEN event
    ELSE [event EXCEPT !.startFrames = Null,
                       !.measurements = MergeMeasurements(@, measurements)]

\* the event _processEvent returns after the await, given the measurements
ProcessedEvent(event, measurements) ==
    LET merged == IF measurements = Null
                  THEN event
                  ELSE [event EXCEPT !.measurements =
                           MergeMeasurements(@, measurements)]
    IN  [merged EXCEPT !.startFrames = Null]

\* _processEvent after the await: merge and consume on success, strip the
\* start frames, return the event
ProcessEventResume(s) ==
    /\ Taken
    /\ slot[s].pc = "resolved"
    /\ LET event == slot[s].event
           measurements == slot[s].result
       IN /\ _finishFrames' = IF measurements = Null
                              THEN _finishFrames
                              ELSE [_finishFrames EXCEPT ![event.trace_id] = Null]
          /\ sent' = [path |-> slot[s].via, in |-> event,
                      out |-> ProcessedEvent(event, measurements),
                      result |-> measurements, seen |-> slot[s].seen]
    /\ slot' = [slot EXCEPT ![s] = FreeSlot]
    /\ UNCHANGED <<now, smallTicks, txn, calls, spanFetches, _framesListeners,
                   _lastSpanFinishFrames, timers>>

\* the SDK goes on with the event the processor returned
TakeEvent ==
    /\ ~Taken
    /\ sent' = NothingSent
    /\ UNCHANGED <<now, smallTicks, txn, calls, spanFetches, _finishFrames,
                   _framesListeners, _lastSpanFinishFrames, timers, slot>>

(* ------------------------------------------------------------------ *)
(* The clock                                                          *)
(* ------------------------------------------------------------------ *)

\* time passes to t: no timer is overdue and no resolved request is still
\* to be resumed (promise continuations run before time passes)
AdvanceTo(t) ==
    /\ TaskCanStart
    /\ t > now
    /\ t <= MaxTime
    /\ timers # <<>> => t <= Head(timers).deadline
    /\ now' = t

\* one margin of time passes
TickMargin ==
    /\ smallTicks < MaxSmallTicks
    /\ smallTicks' = smallTicks + 1
    /\ AdvanceTo(now + MARGIN_OF_ERROR_MS)
    /\ UNCHANGED <<txn, calls, spanFetches, _finishFrames, _framesListeners,
                   _lastSpanFinishFrames, timers, slot, sent>>

\* time passes until the next timer is due
TickToTimer ==
    /\ timers # <<>>
    /\ AdvanceTo(Head(timers).deadline)
    /\ UNCHANGED <<smallTicks, txn, calls, spanFetches, _finishFrames,
                   _framesListeners, _lastSpanFinishFrames, timers, slot, sent>>

(* ------------------------------------------------------------------ *)
(* Specification                                                      *)
(* ------------------------------------------------------------------ *)

Next ==
    \/ \E t \in Txns, tr \in Traces : onTransactionStart(t, tr)
    \/ \E t \in Txns, r \in StartResults : StartFramesFetched(t, r)
    \/ \E endTimestamp \in {NoNumber, now} : _onSpanFinish(endTimestamp)
    \/ \E f \in spanFetches, r \in SpanResults : SpanFramesFetched(f, r)
    \/ \E t \in Txns : onTransactionFinish(t)
    \/ \E t \in Txns, r \in FinishResults : FinishFramesFetched(t, r)
    \/ _cancelFinishFrames
    \/ \E s \in Slots, event \in EventInputs(now) :
          EventProcessor(s, event, TRUE)
    \/ \E s \in Slots : EventProcessor(s, PlainEvent(now), FALSE)
    \/ RequestTimeout
    \/ \E s \in Slots : ProcessEventResume(s)
    \/ TakeEvent
    \/ TickMargin
    \/ TickToTimer

Spec == Init /\ [][Next]_vars

\* the event loop at work: a due timer callback runs, a resolved promise is
\* resumed, the returned event is taken, and time passes up to the next timer
Fairness ==
    /\ WF_vars(RequestTimeout)
    /\ WF_vars(_cancelFinishFrames)
    /\ WF_vars(\E s \in Slots : ProcessEventResume(s))
    /\ WF_vars(TakeEvent)
    /\ WF_vars(TickToTimer)

FairSpec == Init /\ [][Next]_vars /\ Fairness

(* ------------------------------------------------------------------ *)
(* _prepareMeasurements on its own                                    *)
(* ------------------------------------------------------------------ *)

\* all frame readings with counters up to MaxFrames
AllFrames ==
    [totalFrames : 0..MaxFrames, slowFrames : 0..MaxFrames,
     frozenFrames : 0..MaxFrames]

\* timestamps around the margin on both sides of t
AroundMargin(t) ==
    {t - MARGIN_OF_ERROR_MS - 1, t - MARGIN_OF_ERROR_MS,
     t - MARGIN_OF_ERROR_MS + 1, t,
     t + MARGIN_OF_ERROR_MS - 1, t + MARGIN_OF_ERROR_MS,
     t + MARGIN_OF_ERROR_MS + 1}

\* any content of the two maps _prepareMeasurements reads, for trace "A"
InitPrepare ==
    /\ now = StartTime
    /\ smallTicks = 0
    /\ txn = [t \in Txns |-> NewTxn]
    /\ calls = 0
    /\ spanFetches = {}
    /\ \E finish \in {Null} \cup [timestamp : AroundMargin(StartTime),
                                  nativeFrames : AllFrames \cup {Null}] :
          _finishFrames = [tr \in Traces |-> IF tr = "A" THEN finish ELSE Null]
    /\ _framesListeners = [tr \in Traces |-> NoListener]
    /\ _lastSpanFinishFrames \in
          {Null} \cup [timestamp : AroundMargin(StartTime),
                       nativeFrames : AllFrames]
    /\ timers = <<>>
    /\ slot = [s \in Slots |-> FreeSlot]
    /\ sent = NothingSent

\* a call _prepareMeasurements(traceId, finalEndTimestamp, startFrames) with
\* the values the event carries; the first slot keeps what it returned
PrepareCall(event) ==
    /\ slot[1].pc = "free"
    /\ slot' = [slot EXCEPT ![1] =
         [pc |-> "resolved", event |-> event, via |-> "call",
          seen |-> [finish |-> _finishFrames[event.trace_id],
                    lastSpan |-> _lastSpanFinishFrames],
          result |-> _prepareMeasurements(_finishFrames, _lastSpanFinishFrames,
                        event.trace_id, event.timestamp, event.startFrames)]]
    /\ UNCHANGED <<now, smallTicks, txn, calls, spanFetches, _finishFrames,
                   _framesListeners, _lastSpanFinishFrames, timers, sent>>

NextPrepare ==
    \E startFrames \in AllFrames :
        PrepareCall([PlainEvent(StartTime) EXCEPT !.startFrames = startFrames])

SpecPrepare == InitPrepare /\ [][NextPrepare]_vars

(* ------------------------------------------------------------------ *)
(* Properties                                                         *)
(* ------------------------------------------------------------------ *)

\* the requests that have been resolved and not yet resumed
Resolved == {s \in Slots : slot[s].pc = "resolved"}

\* the three measurements of finish frames F against start frames S,
\* written out
Minus(F, S) ==
    ("frames_total" :> (F.totalFrames - S.totalFrames)) @@
    ("frames_slow" :> (F.slowFrames - S.slowFrames)) @@
    ("frames_frozen" :> (F.frozenFrames - S.frozenFrames))

\* the snapshots a resolved request could have been computed from
Candidates(seen) ==
    (IF seen.finish # Null /\ seen.finish.nativeFrames # Null
     THEN {seen.finish.nativeFrames} ELSE {}) \cup
    (IF seen.lastSpan # Null THEN {seen.lastSpan.nativeFrames} ELSE {})

\* the distance of a record's timestamp from the event's timestamp
Distance(record, event) == Abs(record.timestamp - event.timestamp)

\* C1 (delta correctness): whenever _prepareMeasurements returns
\* measurements, they are exactly the differences finish - start of the
\* total, slow and frozen counters of one of the snapshots it can select,
\* without clamping (so negative when the finish counter is the smaller).
C1_DeltaCorrectness ==
    \A s \in Resolved :
        slot[s].result # Null =>
            \E F \in Candidates(slot[s].seen) :
                slot[s].result = Minus(F, slot[s].event.startFrames)

\* C1 witness: a call returned a negative frames_total computed from a
\* finish snapshot smaller than the start snapshot.
C1_Witness ==
    \E s \in Resolved :
        /\ slot[s].result # Null
        /\ slot[s].result["frames_total"] < 0
        /\ \E F \in Candidates(slot[s].seen) :
              F.totalFrames < slot[s].event.startFrames.totalFrames

\* C2 as claimed (tolerance boundary): a per-trace finish record with a
\* non-null snapshot exactly 0.05 s away from finalEndTimestamp is accepted
\* and used.
C2_BoundaryAccepted ==
    \A s \in Resolved :
        LET finish == slot[s].seen.finish IN
        (/\ finish # Null
         /\ finish.nativeFrames # Null
         /\ Distance(finish, slot[s].event) = MARGIN_OF_ERROR_MS)
        => slot[s].result = Minus(finish.nativeFrames, slot[s].event.startFrames)

\* C2 amended (tolerance boundary): a per-trace finish record with a
\* non-null snapshot is used exactly when its timestamp is strictly less
\* than 0.05 s away from finalEndTimestamp; at 0.05 s or more it is
\* rejected, and the result then comes from the orphan record if that one
\* is strictly less than 0.05 s away, and is null otherwise.
C2_ToleranceBoundary ==
    \A s \in Resolved :
        LET finish == slot[s].seen.finish
            orphan == slot[s].seen.lastSpan
            event == slot[s].event
        IN  (finish # Null /\ finish.nativeFrames # Null) =>
              IF Distance(finish, event) < MARGIN_OF_ERROR_MS
              THEN slot[s].result = Minus(finish.nativeFrames, event.startFrames)
              ELSE IF orphan # Null /\ Distance(orphan, event) < MARGIN_OF_ERROR_MS
                   THEN slot[s].result = Minus(orphan.nativeFrames, event.startFrames)
                   ELSE slot[s].result = Null

\* C2 witness: a finish record exactly 0.05 s away was passed over for an
\* orphan record inside the margin with other frames.
C2_Witness ==
    \E s \in Resolved :
        LET finish == slot[s].seen.finish
            orphan == slot[s].seen.lastSpan
            event == slot[s].event
        IN  /\ finish # Null /\ finish.nativeFrames # Null
            /\ Distance(finish, event) = MARGIN_OF_ERROR_MS
            /\ orphan # Null
            /\ Distance(orphan, event) = MARGIN_OF_ERROR_MS - 1
            /\ orphan.nativeFrames # finish.nativeFrames
            /\ slot[s].result = Minus(orphan.nativeFrames, event.startFrames)

\* the record is strictly within the margin of the event's timestamp
InTolerance(record, event) ==
    record # Null /\ Distance(record, event) < MARGIN_OF_ERROR_MS

\* the requests resolved by a run of _prepareMeasurements
Prepared == {s \in Resolved : slot[s].via \in {"has", "listener"}}

\* C3 as claimed (orphan fallback): whenever a request is resolved while
\* the finish record of its trace is absent or out of tolerance and the
\* orphan record is within tolerance, the measurements returned are orphan
\* minus start, not null.
C3_OrphanWheneverNoMatch ==
    \A s \in Resolved :
        LET finish == slot[s].seen.finish
            orphan == slot[s].seen.lastSpan
            event == slot[s].event
        IN  (/\ finish = Null \/ ~InTolerance(finish, event)
             /\ InTolerance(orphan, event))
            => slot[s].result = Minus(orphan.nativeFrames, event.startFrames)

\* C3 amended (orphan fallback): _prepareMeasurements only ever runs with
\* the finish record of the trace present; when that record has a null
\* snapshot or is out of tolerance and the orphan record is within
\* tolerance, the measurements are orphan minus start.  A request that
\* found no finish record and ran into its timeout returns null, also when
\* the orphan record is within tolerance.
C3_OrphanFallback ==
    /\ \A s \in Prepared :
          LET finish == slot[s].seen.finish
              orphan == slot[s].seen.lastSpan
              event == slot[s].event
          IN  /\ finish # Null
              /\ (/\ finish.nativeFrames = Null \/ ~InTolerance(finish, event)
                  /\ InTolerance(orphan, event))
                 => slot[s].result = Minus(orphan.nativeFrames, event.startFrames)
    /\ \A s \in Resolved \ Prepared : slot[s].result = Null

\* C3 witness: a request was resolved from the orphan snapshot while the
\* finish record of its trace, with a snapshot, was out of tolerance.
C3_Witness ==
    \E s \in Prepared :
        LET finish == slot[s].seen.finish
            orphan == slot[s].seen.lastSpan
            event == slot[s].event
        IN  /\ finish # Null
            /\ finish.nativeFrames # Null
            /\ ~InTolerance(finish, event)
            /\ InTolerance(orphan, event)
            /\ slot[s].result = Minus(orphan.nativeFrames, event.startFrames)

\* the requests waiting for the finish record of their trace
Waiting == {s \in Slots : slot[s].pc = "waiting"}

\* the timeout of the request in slot s is pending with the given deadline
TimeoutPending(q, s, deadline) ==
    \E i \in 1..Len(q) :
        q[i].kind = "request" /\ q[i].who = s /\ q[i].deadline = deadline

\* the timeout of the request in slot s is pending and due within 2000 ms
TimeoutAhead(s) ==
    \E i \in 1..Len(timers) :
        /\ timers[i].kind = "request" /\ timers[i].who = s
        /\ now <= timers[i].deadline
        /\ timers[i].deadline <= now + TIMEOUT_MS

\* a call of _getFramesMeasurements that finds no finish record starts a
\* timeout of 2000 ms
WaitStarts ==
    \A s \in Slots :
        (slot[s].pc = "free" /\ slot'[s].pc = "waiting") =>
            /\ _finishFrames[slot'[s].event.trace_id] = Null
            /\ TimeoutPending(timers', s, now + TIMEOUT_MS)

\* a waiting request is released either by its timeout, at the deadline,
\* with null and with the waiter of its trace removed, or in a step that
\* stores the finish record of its trace
WaitEnds ==
    \A s \in Waiting :
        slot'[s].pc # "waiting" =>
            LET tr == slot[s].event.trace_id IN
            /\ slot'[s].pc = "resolved"
            /\ \/ /\ slot'[s].via = "timeout"
                  /\ slot'[s].result = Null
                  /\ _framesListeners'[tr] = NoListener
                  /\ TimeoutPending(timers, s, now)
                  /\ ~TimeoutPending(timers', s, now)
                  /\ now' = now
               \/ /\ slot'[s].via = "listener"
                  /\ \E t \in Txns : /\ txn[t].traceId = tr
                                      /\ txn[t].phase # "finished"
                                      /\ txn'[t].phase = "finished"
                  /\ _finishFrames'[tr] # Null

\* C4 (timeout release): a call of _getFramesMeasurements made when no
\* finish record exists starts a 2000 ms timeout; unless the finish record
\* of its trace is stored first, the call resolves to null exactly at that
\* deadline and the waiter of the trace is removed; every _processEvent call
\* in progress, a waiting one included, is resolved and returns its event.
C4_TimeoutRelease ==
    /\ [][WaitStarts /\ WaitEnds]_vars
    /\ [](\A s \in Waiting : TimeoutAhead(s))
    /\ \A s \in Slots : (slot[s].pc # "free") ~> (slot[s].pc = "free")

\* C4 witness: a request ran into its timeout: it is resolved with null,
\* no finish record of its trace is there and the waiter is removed.
C4_Witness ==
    \E s \in Resolved :
        /\ slot[s].via = "timeout"
        /\ slot[s].result = Null
        /\ _finishFrames[slot[s].event.trace_id] = Null
        /\ _framesListeners[slot[s].event.trace_id] = NoListener

\* the step stores the finish record of transaction t
Stores(t) == txn[t].phase # "finished" /\ txn'[t].phase = "finished"

\* C5 (waiter wake-up): in the step in which _fetchFramesForTransaction
\* stores the finish record of trace T, every request waiting for T, also
\* when there are several, is resolved with the result of
\* _prepareMeasurements for T, and the waiter of T is removed.
C5_EveryWaiterWoken ==
    [][\A t \in Txns : Stores(t) =>
          LET tr == txn[t].traceId IN
          /\ _framesListeners'[tr] = NoListener
          /\ \A s \in Waiting : slot[s].event.trace_id = tr =>
                /\ slot'[s].pc = "resolved"
                /\ slot'[s].via = "listener"
                /\ slot'[s].result =
                      _prepareMeasurements(_finishFrames', _lastSpanFinishFrames,
                          tr, slot[s].event.timestamp, slot[s].event.startFrames)
      ]_vars

\* the step in which the _processEvent call in slot s attaches measurements
Attaches(s) ==
    slot[s].pc = "resolved" /\ slot[s].result # Null /\ slot'[s].pc = "free"

\* C6 (single consumption): when _processEvent attaches measurements for
\* trace T, neither a finish record nor a waiter for T remains, and no
\* other event of T has measurements to attach that were computed while
\* the same finish record was there: measurements are attached to at most
\* one event per finish record.
C6_SingleConsumption ==
    [][\A s \in Slots : Attaches(s) =>
          LET tr == slot[s].event.trace_id IN
          /\ _finishFrames'[tr] = Null
          /\ _framesListeners'[tr] = NoListener
          /\ \A s2 \in Slots \ {s} :
                (/\ slot'[s2].pc = "resolved"
                 /\ slot'[s2].event.trace_id = tr
                 /\ slot'[s2].seen.finish = slot[s].seen.finish)
                => slot'[s2].result = Null
      ]_vars

\* the step is a call of the event processor
ProcessorCalled ==
    /\ calls' = calls + 1
    /\ \/ sent = NothingSent /\ sent' # NothingSent
       \/ \E s \in Slots : slot[s].pc = "free" /\ slot'[s].pc # "free"

\* C7 (no start, no measurement): an event without the start-frames
\* attachment never becomes a request (no waiter, no timer); the call that
\* brings it returns it at once as it came, measurements included, and
\* changes neither the finish records, the waiters, the orphan record, the
\* timers nor the fetches in flight.
C7_NoStartNoMeasurement ==
    [][ProcessorCalled =>
          /\ \A s \in Slots :
                (slot[s].pc = "free" /\ slot'[s].pc # "free")
                => slot'[s].event.startFrames # Null
          /\ (sent' # NothingSent /\ sent'.in.startFrames = Null) =>
                /\ sent'.out = sent'.in
                /\ sent'.result = Null
                /\ UNCHANGED <<slot, timers, _finishFrames, _framesListeners,
                               _lastSpanFinishFrames, spanFetches, txn>>
      ]_vars

\* C7 witness: a transaction event with a trace id and a timestamp but
\* without start frames was returned as it came while the finish record of
\* its trace was there.
C7_Witness ==
    /\ sent.path = "skip"
    /\ sent.in.type = "transaction"
    /\ sent.in.trace_id # NoTraceId
    /\ sent.in.timestamp # NoNumber
    /\ sent.in.startFrames = Null
    /\ sent.out = sent.in
    /\ sent.out.measurements = Preexisting
    /\ _finishFrames[sent.in.trace_id] # Null
    /\ timers # <<>>

\* the finish fetch of a transaction of trace tr resolved null
NullFetch(tr) ==
    \E t \in Txns : txn[t].traceId = tr /\ txn[t].fetched = Null

\* the step in which the finish fetch of transaction t resolves null
FetchFails(t) == txn[t].phase = "fetching" /\ txn'[t].fetched = Null

\* the event returned last went through a reconciliation that gave null
ReturnedWithoutMatch ==
    sent.path \in {"has", "listener", "timeout"} /\ sent.result = Null

\* C8 as claimed (fetch failure yields no measurements): a reconciliation
\* that runs on the null-snapshot record stored after a null finish fetch
\* results in null.
C8_NullFetchGivesNull ==
    \A s \in Prepared :
        LET finish == slot[s].seen.finish IN
        (/\ finish # Null
         /\ finish.nativeFrames = Null
         /\ NullFetch(slot[s].event.trace_id))
        => slot[s].result = Null

\* C8 amended (fetch failure): when the finish fetch of a transaction
\* resolves null, a record with a null snapshot and the timestamp taken at
\* the finish is stored for its trace; a reconciliation that runs on a
\* null-snapshot record results in null unless the orphan record is within
\* tolerance, in which case it results in orphan minus start; an event
\* whose reconciliation gave null is returned with its measurements
\* untouched.
C8_FetchFailure ==
    /\ [][\A t \in Txns : FetchFails(t) =>
             _finishFrames'[txn[t].traceId] =
                 [nativeFrames |-> Null, timestamp |-> txn[t].finishTs]]_vars
    /\ [](\A s \in Prepared :
            LET finish == slot[s].seen.finish
                orphan == slot[s].seen.lastSpan
                event == slot[s].event
            IN  (finish # Null /\ finish.nativeFrames = Null) =>
                  slot[s].result =
                      IF InTolerance(orphan, event)
                      THEN Minus(orphan.nativeFrames, event.startFrames)
                      ELSE Null)
    /\ [](ReturnedWithoutMatch =>
            sent.out.measurements = sent.in.measurements)

\* C8 witness: after a null finish fetch an event of that trace, carrying
\* measurements of its own, went through a reconciliation on the
\* null-snapshot record that gave null, and was returned.
C8_Witness ==
    /\ ReturnedWithoutMatch
    /\ sent.seen.finish # Null
    /\ sent.seen.finish.nativeFrames = Null
    /\ NullFetch(sent.in.trace_id)
    /\ sent.in.measurements = Preexisting
    /\ sent.out.measurements = Preexisting

\* C9 (merge on success): the step that attaches measurements returns the
\* event with exactly frames_total, frames_slow and frames_frozen set to the
\* reconciliation's values and every other measurement key as it was,
\* deletes the finish record of the event's trace and leaves the finish
\* records of all other traces alone.
C9_MergeOnSuccess ==
    [][\A s \in Slots : Attaches(s) =>
          LET event == slot[s].event
              measurements == slot[s].result
              merged == sent'.out.measurements
          IN  /\ sent'.in = event
              /\ DOMAIN measurements = FrameKeys
              /\ DOMAIN merged = DOMAIN event.measurements \cup FrameKeys
              /\ \A k \in FrameKeys : merged[k] = measurements[k]
              /\ \A k \in DOMAIN event.measurements \ FrameKeys :
                    merged[k] = event.measurements[k]
              /\ _finishFrames'[event.trace_id] = Null
              /\ \A tr \in Traces \ {event.trace_id} :
                    _finishFrames'[tr] = _finishFrames[tr]
      ]_vars

\* C9 witness: measurements were attached to an event that had a
\* measurement of another integration and an older frames_slow; the
\* record of its trace is gone and the record of the other trace is there.
C9_Witness ==
    /\ sent.result # Null
    /\ sent.in.measurements = Preexisting
    /\ sent.out.measurements[OtherKey] = Preexisting[OtherKey]
    /\ sent.out.measurements["frames_slow"] = sent.result["frames_slow"]
    /\ sent.out.measurements["frames_slow"] # Preexisting["frames_slow"]
    /\ _finishFrames[sent.in.trace_id] = Null
    /\ \E tr \in Traces \ {sent.in.trace_id} : _finishFrames[tr] # Null

C11_UnavailablePassThrough ==
    [][(sent = NothingSent /\ sent'.path = "noexist") =>
          /\ sent'.out = sent'.in
          /\ sent'.result = Null
          /\ UNCHANGED <<slot, timers, _finishFrames, _framesListeners,
                         _lastSpanFinishFrames, spanFetches, txn>>
      ]_vars

\* C11 witness: with doesExist() false a transaction event that carries
\* start frames was returned untouched although the finish record of its
\* trace was there.
C11_Witness ==
    /\ sent.path = "noexist"
    /\ sent.in.type = "transaction"
    /\ sent.in.startFrames = StartReading
    /\ sent.out = sent.in
    /\ _finishFrames[sent.in.trace_id] # Null
    /\ _finishFrames[sent.in.trace_id].nativeFrames # Null
    /\ \A s \in Slots : slot[s].pc = "free"

\* the step is the cleanup sweep of a transaction of trace tr
Sweeps(tr) ==
    /\ timers # <<>>
    /\ Head(timers).kind = "sweep"
    /\ txn[Head(timers).who].traceId = tr
    /\ timers' = Tail(timers)

\* C12 (finish-record immutability and single deletion): a finish record,
\* once stored for a trace, is never overwritten or changed; it only
\* disappears, and then in a step that attaches measurements for that trace
\* or in a cleanup sweep for that trace.
C12_RecordImmutable ==
    [][\A tr \in Traces : _finishFrames[tr] # Null =>
          \/ _finishFrames'[tr] = _finishFrames[tr]
          \/ /\ _finishFrames'[tr] = Null
             /\ \/ Sweeps(tr)
                \/ \E s \in Slots : Attaches(s) /\ slot[s].event.trace_id = tr
      ]_vars

\* the cleanup sweep of a transaction of trace tr is pending and due within
\* 2000 ms
SweepAhead(tr) ==
    \E i \in 1..Len(timers) :
        /\ timers[i].kind = "sweep"
        /\ txn[timers[i].who].traceId = tr
        /\ now <= timers[i].deadline
        /\ timers[i].deadline <= now + TIMEOUT_MS

\* the step that stores a finish record starts a cleanup sweep due 2000 ms
\* later
SweepStarts ==
    \A t \in Txns : Stores(t) =>
        \E i \in 1..Len(timers') :
            /\ timers'[i].kind = "sweep"
            /\ timers'[i].who = t
            /\ timers'[i].deadline = now + TIMEOUT_MS

\* a cleanup sweep runs at its deadline and leaves no finish record for its
\* trace
SweepDeletes ==
    \A tr \in Traces : Sweeps(tr) =>
        /\ Head(timers).deadline = now
        /\ _finishFrames'[tr] = Null

\* C13 (cleanup sweep bounds state): storing a finish record starts a sweep
\* due 2000 ms later; as long as a record is there a sweep for its trace is
\* still ahead, at most 2000 ms away, and that sweep deletes it; so every
\* record disappears, with or without an event of its trace, and when no
\* timer is pending the finish-record map is empty.
C13_SweepBoundsState ==
    /\ [][SweepStarts /\ SweepDeletes]_vars
    /\ [](\A tr \in Traces : _finishFrames[tr] # Null => SweepAhead(tr))
    /\ [](timers = <<>> => \A tr \in Traces : _finishFrames[tr] = Null)
    /\ \A tr \in Traces : (_finishFrames[tr] # Null) ~> (_finishFrames[tr] = Null)

\* C13 witness: a transaction finished and no event was ever processed
\* (the only call so far is its start); all timers have fired and the
\* finish-record map is empty.
C13_Witness ==
    /\ calls = 1
    /\ txn[1].phase = "finished"
    /\ txn[1].fetched \in FinishResults \ {Null}
    /\ now >= StartTime + TIMEOUT_MS
    /\ timers = <<>>
    /\ \A tr \in Traces : _finishFrames[tr] = Null

\* the step is the timeout callback of a request of trace tr
TimesOut(tr) ==
    /\ timers # <<>>
    /\ Head(timers).kind = "request"
    /\ slot[Head(timers).who].event.trace_id = tr
    /\ timers' = Tail(timers)

\* the step is taken for trace tr: a finish record of a transaction of tr
\* is stored (and the waiter of tr invoked), an event of tr enters or
\* resumes _processEvent, a request of tr times out, or a sweep of tr runs
StepFor(tr) ==
    \/ \E t \in Txns : Stores(t) /\ txn[t].traceId = tr
    \/ \E s \in Slots : /\ slot[s].pc = "free"
                        /\ slot'[s].pc # "free"
                        /\ slot'[s].event.trace_id = tr
    \/ \E s \in Slots : /\ slot[s].pc = "resolved"
                        /\ slot'[s].pc = "free"
                        /\ slot[s].event.trace_id = tr
    \/ TimesOut(tr)
    \/ Sweeps(tr)

\* C14 (no cross-trace interference): the finish record and the waiter of a
\* trace, and every request in progress for it, change only in steps taken
\* for that trace, and a step is taken for one trace only.
C14_NoCrossTraceInterference ==
    [][/\ \A tr \in Traces :
            (\/ _finishFrames'[tr] # _finishFrames[tr]
             \/ _framesListeners'[tr] # _framesListeners[tr]
             \/ \E s \in Slots : /\ slot[s].pc # "free"
                                 /\ slot[s].event.trace_id = tr
                                 /\ slot'[s] # slot[s])
            => StepFor(tr)
       /\ \A tr1, tr2 \in Traces : StepFor(tr1) /\ StepFor(tr2) => tr1 = tr2
      ]_vars

\* C14 witness: the finish record of trace "A" was stored and swept (no
\* event of "A" was processed: the two calls so far are the start of the
\* transaction and the event of "B") while a request of trace "B" was
\* waiting; the waiter of "B" is still registered.
C14_Witness ==
    /\ calls = 2
    /\ txn[1].traceId = "A"
    /\ txn[1].phase = "finished"
    /\ txn[2].phase = "new"
    /\ _finishFrames["A"] = Null
    /\ \A i \in 1..Len(timers) : timers[i].kind = "request"
    /\ _framesListeners["B"] # NoListener
    /\ slot[_framesListeners["B"]].pc = "waiting"
    /\ slot[_framesListeners["B"]].event.trace_id = "B"

\* the timeout of the request in slot s is pending
HasTimeout(q, s) ==
    \E i \in 1..Len(q) : q[i].kind = "request" /\ q[i].who = s

\* a resolved request keeps its result until its own continuation returns
\* the event
ResolvedStays ==
    \A s \in Resolved : slot'[s] = slot[s] \/ slot'[s] = FreeSlot

\* a request resolved by the arrival of the finish record loses its timeout
TimeoutCleared ==
    \A s \in Waiting :
        (slot'[s].pc = "resolved" /\ slot'[s].via = "listener")
        => ~HasTimeout(timers', s)

\* the step that stores a finish record touches waiting requests only, keeps
\* the record and leaves no waiter for the trace
StoreIsLate ==
    \A t \in Txns : Stores(t) =>
        /\ \A s \in Slots \ Waiting : slot'[s] = slot[s]
        /\ _finishFrames'[txn[t].traceId] # Null
        /\ _framesListeners'[txn[t].traceId] = NoListener

C16_OrphanMostRecent ==
    [][/\ (_lastSpanFinishFrames # Null /\ _lastSpanFinishFrames' # Null)
             => _lastSpanFinishFrames'.timestamp >= _lastSpanFinishFrames.timestamp
       /\ _lastSpanFinishFrames' # _lastSpanFinishFrames
             => \E f \in spanFetches :
                   /\ spanFetches' = spanFetches \ {f}
                   /\ _lastSpanFinishFrames'.timestamp = f.timestamp
                   /\ _lastSpanFinishFrames'.nativeFrames # Null
      ]_vars

\* C17 (candidate order): when the finish record of the trace has a snapshot
\* and is within tolerance, _prepareMeasurements computes from that
\* snapshot, whether or not the orphan record is within tolerance too or
\* closer; with a finish record there, a result that is the orphan's and
\* not the finish record's occurs only when the finish record has a null
\* snapshot or is out of tolerance.
C17_CandidateOrder ==
    \A s \in Resolved :
        LET finish == slot[s].seen.finish
            orphan == slot[s].seen.lastSpan
            event == slot[s].event
        IN  finish # Null =>
              /\ (finish.nativeFrames # Null /\ InTolerance(finish, event))
                    => slot[s].result = Minus(finish.nativeFrames, event.startFrames)
              /\ (/\ slot[s].result # Null
                  /\ orphan # Null
                  /\ slot[s].result = Minus(orphan.nativeFrames, event.startFrames)
                  /\ \/ finish.nativeFrames = Null
                     \/ slot[s].result # Minus(finish.nativeFrames, event.startFrames))
                    => (finish.nativeFrames = Null \/ ~InTolerance(finish, event))

\* C17 witness: both records were within tolerance, the orphan record
\* strictly closer and with another snapshot; the result is the finish
\* record's and not the orphan's.
C17_Witness ==
    \E s \in Resolved :
        LET finish == slot[s].seen.finish
            orphan == slot[s].seen.lastSpan
            event == slot[s].event
        IN  /\ finish # Null
            /\ finish.nativeFrames # Null
            /\ InTolerance(finish, event)
            /\ InTolerance(orphan, event)
            /\ Distance(orphan, event) < Distance(finish, event)
            /\ slot[s].result = Minus(finish.nativeFrames, event.startFrames)
            /\ slot[s].result # Minus(orphan.nativeFrames, event.startFrames)

\* the step is onTransactionFinish of transaction t
Finishes(t) == txn[t].phase = "started" /\ txn'[t].phase # "started"

\* the sweep of transaction t with the given deadline is pending
SweepPending(q, t, deadline) ==
    \E i \in 1..Len(q) :
        q[i].kind = "sweep" /\ q[i].who = t /\ q[i].deadline = deadline

\* onTransactionFinish without start frames: no fetch, the record
\* {now, null} stored, the waiter of the trace called and removed, the sweep
\* scheduled
FinishWithoutStart(t) ==
    LET tr == txn[t].traceId
        s == _framesListeners[tr]
    IN  /\ txn'[t].phase = "finished"
        /\ txn'[t].fetched = NotFetched
        /\ _finishFrames'[tr] = [nativeFrames |-> Null, timestamp |-> now]
        /\ _framesListeners'[tr] = NoListener
        /\ s # NoListener =>
              /\ slot'[s].pc = "resolved"
              /\ slot'[s].via = "listener"
              /\ slot'[s].seen.finish = _finishFrames'[tr]
              /\ ~HasTimeout(timers', s)
        /\ SweepPending(timers', t, now + TIMEOUT_MS)

\* onTransactionFinish with start frames: the time of the call is kept, the
\* fetch is issued and nothing is stored yet
FinishWithStart(t) ==
    /\ txn'[t].phase = "fetching"
    /\ txn'[t].finishTs = now
    /\ UNCHANGED <<_finishFrames, _framesListeners, timers, slot>>

\* the finish fetch of transaction t resolves: the record carries the time
\* of the finish call and what the fetch gave
FetchArrives(t) ==
    (txn[t].phase = "fetching" /\ txn'[t].phase = "finished") =>
        /\ _finishFrames'[txn[t].traceId] =
              [nativeFrames |-> txn'[t].fetched, timestamp |-> txn[t].finishTs]
        /\ txn[t].finishTs <= now
        /\ SweepPending(timers', t, now + TIMEOUT_MS)

\* C18 (finish without a start snapshot): onTransactionFinish of a
\* transaction without start frames issues no fetch, stores {time of the
\* call, null} for its trace, calls and removes the waiter of the trace and
\* schedules the sweep; with start frames the record stored when the fetch
\* resolves carries the time of the finish call, not of the fetch result.
C18_FinishWithoutStart ==
    [][\A t \in Txns :
          /\ Finishes(t) => IF txn[t].startFrames = Null
                            THEN FinishWithoutStart(t)
                            ELSE FinishWithStart(t)
          /\ FetchArrives(t)
      ]_vars

\* C18 witness: a transaction without start frames finished while a request
\* of its trace was waiting, and the request was resolved on the record
\* with the null snapshot; the record of another transaction, which had
\* start frames, carries a time earlier than that of its fetch result (its
\* sweep is due more than 2000 ms after the record's time).
C18_Witness ==
    /\ \E s \in Resolved : \E t \in Txns :
          /\ slot[s].via = "listener"
          /\ txn[t].traceId = slot[s].event.trace_id
          /\ txn[t].startFrames = Null
          /\ txn[t].phase = "finished"
          /\ slot[s].seen.finish # Null
          /\ slot[s].seen.finish.nativeFrames = Null
    /\ \E t \in Txns : \E i \in 1..Len(timers) :
          /\ txn[t].startFrames # Null
          /\ txn[t].phase = "finished"
          /\ _finishFrames[txn[t].traceId] # Null
          /\ timers[i].kind = "sweep"
          /\ timers[i].who = t
          /\ _finishFrames[txn[t].traceId].timestamp + TIMEOUT_MS
                < timers[i].deadline

\* C19 (late start fetch): a transaction that finished without start frames
\* never gets start frames afterwards, whatever its start fetch resolves
\* to, and a start fetch that resolves null attaches nothing.
C19_NoLateStartFrames ==
    [][\A t \in Txns :
          /\ (txn[t].phase = "finished" /\ txn[t].startFrames = Null)
                => txn'[t].startFrames = Null
          /\ (txn[t].startFetch /\ ~txn'[t].startFetch
                /\ txn'[t].startFrames # txn[t].startFrames)
                => txn'[t].startFrames \in StartResults \ {Null}
      ]_vars

\* C20 (a timeout removes only its own waiter): when the timeout of a
\* request fires while the waiter registered for the trace belongs to
\* another request, that waiter stays registered.
C20_TimeoutRemovesOwnWaiter ==
    [][\A tr \in Traces :
          (TimesOut(tr) /\ _framesListeners[tr] # Head(timers).who)
          => _framesListeners'[tr] = _framesListeners[tr]
      ]_vars

=============================================================================
